---- MODULE Spec2Model ----
(***************************************************************************)
(* Praxis Advisor - Project Charter Generator API (src/praxis_advisor.py). *)
(*                                                                         *)
(* The file holds two programs.                                            *)
(*   The application, lines 12-427: a Flask object with home() on "/" and  *)
(*   generate_charter() on POST /webhook/praxis-charter, which checks the  *)
(*   content type and the required fields, sets defaults and builds        *)
(*   user_prompt; the function ends with that f-string.                    *)
(*   The backend example, lines 467-519, inside the documentation text     *)
(*   that follows line 427: a Flask object with one generate_charter() in  *)
(*   try/except that calls the generation API and relays its text.         *)
(* The file as a whole does not compile (Compile): importing it binds      *)
(* nothing and no request is answered (NoServer).  Lines 1-427 and lines   *)
(* 467-519 each compile, and each program is modelled as it runs when its  *)
(* lines are run alone.  A request is a message in flight to the host and  *)
(* is handled by its own handler invocation.                               *)
(***************************************************************************)
EXTENDS Integers, Sequences, FiniteSets, TLC

VARIABLES globals, req, pc, locals, prompt, call, calls, upstream, resp,
          responses, now, get_json_failure

vars == <<globals, req, pc, locals, prompt, call, calls, upstream, resp,
          responses, now, get_json_failure>>

(***************************************************************************)
(* Bounds.                                                                 *)
(***************************************************************************)
NumClients == 3
MaxClock == 2

(***************************************************************************)
(* Python / Flask primitives used by the handlers.                         *)
(***************************************************************************)
CharterPath == "/webhook/praxis-charter"

\* dict.get(key, default) on the parsed JSON object
Get(data, key, default) == IF key \in DOMAIN data THEN data[key] ELSE default

\* "not data.get(field)": the field is absent (None) or the empty string
NotGet(data, field) == field \notin DOMAIN data \/ data[field] = ""

RECURSIVE Join(_, _)
\* sep.join(seq)
Join(seq, sep) ==
  IF Len(seq) = 0 THEN ""
  ELSE IF Len(seq) = 1 THEN seq[1]
  ELSE seq[1] \o sep \o Join(Tail(seq), sep)

\* The names a function body sees: its locals, then the module globals.
Scope(loc, glob) == loc @@ glob

\* jsonify(body), status
jsonify(body, status) ==
  [status |-> status, mimetype |-> "application/json", body |-> body]

\* What Flask answers by itself when no handler of the application produces
\* the response: werkzeug's HTML error page for the status.
FlaskDefault(status, name) ==
  [status |-> status, mimetype |-> "text/html", body |-> [html |-> name]]

NotFound == FlaskDefault(404, "Not Found")
MethodNotAllowed == FlaskDefault(405, "Method Not Allowed")
InternalServerError == FlaskDefault(500, "Internal Server Error")

\* Flask's dispatch of request r on the URL map of application a
Route(a, r) ==
  IF \E u \in a.url_map : u.rule = r.path
  THEN LET u == CHOOSE u \in a.url_map : u.rule = r.path IN
         IF r.method \in u.methods THEN u.endpoint ELSE "405"
  ELSE "404"

\* datetime.now().isoformat() for clock reading t
isoformat(t) ==
  "2026-01-01T00:00:0" \o (CASE t = 0 -> "0" [] t = 1 -> "1" [] t = 2 -> "2"
                             [] t = 3 -> "3" [] OTHER -> "9")

NoResp == [status |-> 0, mimetype |-> "", body |-> [html |-> ""]]
NoCall == [model |-> "", max_tokens |-> 0, messages |-> <<>>]
NoOutcome == [raises |-> FALSE, text |-> "", content |-> <<>>,
              input_tokens |-> 0, output_tokens |-> 0, none |-> TRUE]
NoLocals == <<>>
NoPrompt == [built |-> FALSE, raised |-> FALSE, text |-> "", fields |-> <<>>]

(***************************************************************************)
(* The application, lines 12-427.                                          *)
(***************************************************************************)
\* FirstApp without the rule of line 18
FirstApp_without_home ==
  [name |-> "application",
   url_map |-> { [rule |-> "/webhook/praxis-charter", methods |-> {"POST"},
                  endpoint |-> "generate_charter"] }]

\* lines 12, 18 and 28: the Flask object and its URL rules
FirstApp ==
  [name |-> "application",
   url_map |-> { [rule |-> "/", methods |-> {"GET"}, endpoint |-> "home"],
                 [rule |-> "/webhook/praxis-charter", methods |-> {"POST"},
                  endpoint |-> "generate_charter"] }]

\* home(), lines 18-26
home ==
  jsonify([status |-> "online",
           service |-> "Praxis Advisor - Project Charter Generator",
           version |-> "1.0",
           endpoint |-> "/webhook/praxis-charter"], 200)

\* line 57
required_fields == <<"projectName", "projectGoal">>

\* missing_fields that tests "field not in data" only
missing_fields_absent_only(data) ==
  SelectSeq(required_fields, LAMBDA f : f \notin DOMAIN data)

\* line 58
missing_fields(data) == SelectSeq(required_fields, LAMBDA f : NotGet(data, f))

\* ContentTypeError answered with status 415
ContentTypeError_415 ==
  jsonify([error |-> TRUE,
           message |-> "Content-Type must be application/json",
           statusCode |-> 415], 415)

\* lines 47-52
ContentTypeError ==
  jsonify([error |-> TRUE,
           message |-> "Content-Type must be application/json",
           statusCode |-> 400], 400)

\* lines 60-65
MissingFieldsError(missing) ==
  jsonify([error |-> TRUE,
           message |-> "Missing required fields: " \o Join(missing, ", "),
           statusCode |-> 400], 400)

\* lines 68-75: the locals bound by "Extract and set defaults"
Defaults1(data) ==
  [project_name |-> Get(data, "projectName", ""),
   project_goal |-> Get(data, "projectGoal", ""),
   timeline     |-> Get(data, "timeline", "Not specified"),
   budget       |-> Get(data, "budget", "Not specified"),
   stakeholders |-> Get(data, "stakeholders", "To be determined"),
   constraints  |-> Get(data, "constraints", "None specified"),
   industry     |-> Get(data, "industry", "General"),
   team_size    |-> Get(data, "teamSize", "To be determined")]

\* lines 93-100: the replacement fields of the f-string, in evaluation order;
\* guarded fields are written {x if x else 'Not specified'}
Placeholders ==
  << [name |-> "projectName",  guarded |-> FALSE],
     [name |-> "projectGoal",  guarded |-> FALSE],
     [name |-> "timeline",     guarded |-> TRUE],
     [name |-> "budget",       guarded |-> TRUE],
     [name |-> "stakeholders", guarded |-> TRUE],
     [name |-> "constraints",  guarded |-> TRUE],
     [name |-> "industry",     guarded |-> TRUE],
     [name |-> "teamSize",     guarded |-> TRUE] >>

RECURSIVE EvalPlaceholders(_, _, _)
\* Evaluates the replacement fields from index k on in the scope env; a name
\* that is not bound raises NameError and ends the evaluation.
EvalPlaceholders(env, k, acc) ==
  IF k > Len(Placeholders)
  THEN [built |-> TRUE, raised |-> FALSE, text |-> "", fields |-> acc]
  ELSE LET p == Placeholders[k] IN
    IF p.name \notin DOMAIN env
    THEN [built |-> FALSE, raised |-> TRUE,
          text |-> "name '" \o p.name \o "' is not defined",
          fields |-> acc]
    ELSE LET v == IF p.guarded /\ env[p.name] = "" THEN "Not specified"
                  ELSE env[p.name]
         IN EvalPlaceholders(env, k + 1, Append(acc, v))

\* lines 83-427: user_prompt = f"""...""" evaluated in the handler's scope
user_prompt(env) == EvalPlaceholders(env, 1, <<>>)

(***************************************************************************)
(* The backend example, lines 467-519.                                     *)
(***************************************************************************)
\* lines 472 and 475: the Flask object and its URL rule
ExampleApp ==
  [name |-> "example",
   url_map |-> { [rule |-> "/webhook/praxis-charter", methods |-> {"POST"},
                  endpoint |-> "generate_charter"] }]

\* lines 512-516
ExceptResponse(text) == jsonify([success |-> FALSE, message |-> text], 500)

\* lines 480-487: the handler's local variables
Fields2(data) ==
  [projectName  |-> Get(data, "projectName", ""),
   projectGoal  |-> Get(data, "projectGoal", ""),
   timeline     |-> Get(data, "timeline", ""),
   budget       |-> Get(data, "budget", ""),
   stakeholders |-> Get(data, "stakeholders", ""),
   constraints  |-> Get(data, "constraints", ""),
   industry     |-> Get(data, "industry", ""),
   teamSize     |-> Get(data, "teamSize", "")]

\* line 490: an f-string without replacement fields
prompt2 ==
  [built |-> TRUE, raised |-> FALSE,
   text |-> "[INSERT THE FULL PROMPT FROM ABOVE HERE]", fields |-> <<>>]

\* lines 492-498: arguments of anthropic.messages.create
CreateArgs ==
  [model |-> "claude-sonnet-4-20250514",
   max_tokens |-> 8000,
   messages |-> << [role |-> "user", content |-> prompt2.text] >>]

\* line 478, request.get_json() on a request whose content type is not JSON:
\* depending on the installed Flask it raises 415 Unsupported Media Type or
\* 400 Bad Request, or returns None and data.get at line 480 raises
\* AttributeError.  Each is caught at line 512; the text is fixed by the
\* installation.
GetJsonFailures ==
  {"415 Unsupported Media Type: Did not attempt to load JSON data because the request Content-Type was not 'application/json'.",
   "400 Bad Request: Did not attempt to load JSON data because the request Content-Type was not 'application/json'.",
   "'NoneType' object has no attribute 'get'"}

\* lines 500-516: the handler after messages.create returned or raised, with
\* the handler's locals env, the outcome of the call and the clock reading t
AfterCreate(env, outcome, t) ==
  IF outcome.raises THEN ExceptResponse(outcome.text)
  ELSE IF Len(outcome.content) = 0
       THEN ExceptResponse("list index out of range")
       ELSE jsonify([success |-> TRUE,
                     projectName |-> env.projectName,
                     charter |-> outcome.content[1],
                     metadata |-> [generatedAt |-> isoformat(t),
                                   estimatedCost |-> "0.025"]], 200)

(***************************************************************************)
(* Inputs.                                                                 *)
(***************************************************************************)
Fields == {"projectName", "projectGoal", "timeline", "budget",
           "stakeholders", "constraints", "industry", "teamSize"}
OptionalFields == Fields \ {"projectName", "projectGoal"}

Sample == [projectName  |-> "Apollo",
           projectGoal  |-> "Ship the lander",
           timeline     |-> "6 months",
           budget       |-> "$50,000",
           stakeholders |-> "CTO",
           constraints  |-> "No overtime",
           industry     |-> "Aerospace",
           teamSize     |-> "7"]

\* JSON objects: every field absent, the empty string, or a non-empty string
Payloads ==
  { [f \in D |-> IF f \in E THEN "" ELSE Sample[f]] :
      <<D, E>> \in { de \in (SUBSET Fields) \X (SUBSET Fields) :
                       de[2] \subseteq de[1] } }

RoutingRequests ==
  { [method |-> m, path |-> p, isJson |-> FALSE, data |-> <<>>] :
      <<m, p>> \in { mp \in {"GET", "POST"}
                              \X {"/", CharterPath, "/unknown-path"} :
                       ~(mp[1] = "POST" /\ mp[2] = CharterPath) } }

CharterRequests(payloads) ==
  { [method |-> "POST", path |-> CharterPath, isJson |-> j, data |-> d] :
      <<j, d>> \in BOOLEAN \X payloads }

Requests == RoutingRequests \cup CharterRequests(Payloads)

\* Results of anthropic.messages.create: generated text segments with the
\* usage report, or an exception with its text
Outcomes ==
  { [raises |-> FALSE, text |-> "", content |-> << "# Charter A" >>,
     input_tokens |-> 1000000, output_tokens |-> 1000000, none |-> FALSE],
    [raises |-> FALSE, text |-> "", content |-> << "# Charter B", "notes" >>,
     input_tokens |-> 1200, output_tokens |-> 3400, none |-> FALSE],
    [raises |-> FALSE, text |-> "", content |-> << >>,
     input_tokens |-> 10, output_tokens |-> 0, none |-> FALSE],
    [raises |-> TRUE, text |-> "Connection error.", content |-> << >>,
     input_tokens |-> 0, output_tokens |-> 0, none |-> FALSE],
    [raises |-> TRUE, text |-> "invalid x-api-key", content |-> << >>,
     input_tokens |-> 0, output_tokens |-> 0, none |-> FALSE] }

(***************************************************************************)
(* State machine.                                                          *)
(***************************************************************************)
Slots == DOMAIN req

\* python3 compiling a text of the file.  The whole file: line 428 closes a
\* markdown fence and documentation follows to line 519, which is not
\* Python; the compiler stops with a SyntaxError.  Lines 1-427 (the
\* application) and lines 467-519 (the backend example) each compile.
Compile(text) ==
  IF text = "file"
  THEN [ok |-> FALSE,
        error |-> "SyntaxError: unterminated string literal (detected at line 464)"]
  ELSE [ok |-> TRUE, error |-> ""]

\* The module globals after the text has been imported: nothing when it does
\* not compile, else the Flask object and the API client (lines 12-16, or
\* 472-473).
Module(text) ==
  IF ~Compile(text).ok THEN <<>>
  ELSE IF text = "application"
       THEN [app |-> FirstApp, client |-> "Anthropic(ANTHROPIC_API_KEY)"]
       ELSE [app |-> ExampleApp, anthropic |-> "Anthropic(ANTHROPIC_API_KEY)"]

\* the program named n is running
Running(n) == "app" \in DOMAIN globals /\ globals.app.name = n

\* The state after one of the texts has been run and the clients have sent
\* their requests.
InitWith(texts, slots, requests) ==
  /\ \E text \in texts :
       /\ globals = Module(text)
       /\ get_json_failure \in IF text = "example" THEN GetJsonFailures
                                ELSE {""}
  /\ req \in [slots -> requests]
  /\ pc = [i \in slots |-> "sent"]
  /\ locals = [i \in slots |-> NoLocals]
  /\ prompt = [i \in slots |-> NoPrompt]
  /\ call = [i \in slots |-> NoCall]
  /\ calls = [i \in slots |-> 0]
  /\ upstream = [i \in slots |-> NoOutcome]
  /\ resp = [i \in slots |-> NoResp]
  /\ responses = [i \in slots |-> 0]
  /\ now = 0

Respond(i, r) ==
  /\ resp' = [resp EXCEPT ![i] = r]
  /\ responses' = [responses EXCEPT ![i] = @ + 1]
  /\ pc' = [pc EXCEPT ![i] = "done"]

\* The import failed: no Flask object exists, nothing listens, and request i
\* gets no response of any kind.
NoServer(i) ==
  /\ "app" \notin DOMAIN globals
  /\ pc[i] = "sent"
  /\ pc' = [pc EXCEPT ![i] = "refused"]
  /\ UNCHANGED <<globals, req, locals, prompt, call, calls, upstream, resp,
                 responses, now, get_json_failure>>

\* Receive with missing_fields declared global: the list is bound in the
\* module namespace, where every handler invocation overwrites it.
Receive_global(i) ==
  /\ Running("application")
  /\ pc[i] = "sent"
  /\ LET route == Route(globals.app, req[i]) IN
       CASE route = "404" ->
              Respond(i, NotFound) /\ UNCHANGED <<locals, globals>>
         [] route = "405" ->
              Respond(i, MethodNotAllowed) /\ UNCHANGED <<locals, globals>>
         [] route = "home" ->
              Respond(i, home) /\ UNCHANGED <<locals, globals>>
         [] route = "generate_charter" /\ ~req[i].isJson ->
              Respond(i, ContentTypeError) /\ UNCHANGED <<locals, globals>>
         [] route = "generate_charter" /\ req[i].isJson ->
              /\ locals' = [locals EXCEPT ![i] =
                              [data |-> req[i].data,
                               required_fields |-> required_fields]]
              /\ globals' = [n \in DOMAIN globals \cup {"missing_fields"} |->
                               IF n = "missing_fields"
                               THEN missing_fields(req[i].data)
                               ELSE globals[n]]
              /\ pc' = [pc EXCEPT ![i] = "validating"]
              /\ UNCHANGED <<resp, responses>>
  /\ UNCHANGED <<req, prompt, call, calls, upstream, now, get_json_failure>>

\* The application takes request i: routing, home(), and generate_charter()
\* through the content-type check and the computation of missing_fields
\* (lines 18-58).
Receive(i) ==
  /\ Running("application")
  /\ pc[i] = "sent"
  /\ LET route == Route(globals.app, req[i]) IN
       CASE route = "404" ->
              Respond(i, NotFound) /\ UNCHANGED locals
         [] route = "405" ->
              Respond(i, MethodNotAllowed) /\ UNCHANGED locals
         [] route = "home" ->
              Respond(i, home) /\ UNCHANGED locals
         [] route = "generate_charter" /\ ~req[i].isJson ->
              Respond(i, ContentTypeError) /\ UNCHANGED locals
         [] route = "generate_charter" /\ req[i].isJson ->
              /\ locals' = [locals EXCEPT ![i] =
                              [data |-> req[i].data,
                               required_fields |-> required_fields,
                               missing_fields |-> missing_fields(req[i].data)]]
              /\ pc' = [pc EXCEPT ![i] = "validating"]
              /\ UNCHANGED <<resp, responses>>
  /\ UNCHANGED <<globals, req, prompt, call, calls, upstream, now,
                 get_json_failure>>

\* generate_charter() of the application from "if missing_fields:" to its
\* end (lines 60-427).  The function has no try/except and ends with the
\* assignment of user_prompt: an exception in the f-string, or falling off
\* the end (the view returns None), both leave Flask to answer 500.
Finish(i) ==
  /\ Running("application")
  /\ pc[i] = "validating"
  /\ LET missing == Scope(locals[i], globals)["missing_fields"] IN
       IF Len(missing) > 0
       THEN /\ Respond(i, MissingFieldsError(missing))
            /\ UNCHANGED <<locals, prompt>>
       ELSE LET env == Defaults1(locals[i].data) @@ locals[i] IN
              /\ locals' = [locals EXCEPT ![i] = env]
              /\ prompt' = [prompt EXCEPT ![i] = user_prompt(Scope(env, globals))]
              /\ Respond(i, InternalServerError)
  /\ UNCHANGED <<globals, req, call, calls, upstream, now, get_json_failure>>

\* The example serves request i up to the call of messages.create
\* (lines 477-498), or to the response when it does not get that far.
ServeExample(i) ==
  /\ Running("example")
  /\ pc[i] = "sent"
  /\ LET route == Route(globals.app, req[i]) IN
       CASE route = "404" ->
              Respond(i, NotFound) /\ UNCHANGED <<locals, prompt, call, calls>>
         [] route = "405" ->
              /\ Respond(i, MethodNotAllowed)
              /\ UNCHANGED <<locals, prompt, call, calls>>
         [] route = "generate_charter" /\ ~req[i].isJson ->
              /\ Respond(i, ExceptResponse(get_json_failure))
              /\ UNCHANGED <<locals, prompt, call, calls>>
         [] route = "generate_charter" /\ req[i].isJson ->
              /\ locals' = [locals EXCEPT ![i] = Fields2(req[i].data)]
              /\ prompt' = [prompt EXCEPT ![i] = prompt2]
              /\ call' = [call EXCEPT ![i] = CreateArgs]
              /\ calls' = [calls EXCEPT ![i] = @ + 1]
              /\ pc' = [pc EXCEPT ![i] = "calling"]
              /\ UNCHANGED <<resp, responses>>
  /\ UNCHANGED <<globals, req, upstream, now, get_json_failure>>

\* messages.create of request i returns or raises; the example's handler
\* finishes (lines 500-516).
UpstreamReturns(i) ==
  /\ pc[i] = "calling"
  /\ \E outcome \in Outcomes :
       /\ upstream' = [upstream EXCEPT ![i] = outcome]
       /\ Respond(i, AfterCreate(locals[i], outcome, now))
  /\ UNCHANGED <<globals, req, locals, prompt, call, calls, now,
                 get_json_failure>>

\* The wall clock advances while the example runs.
Tick ==
  /\ Running("example")
  /\ now < MaxClock
  /\ now' = now + 1
  /\ UNCHANGED <<globals, req, pc, locals, prompt, call, calls, upstream, resp,
                 responses, get_json_failure>>

\* The file, or the application's lines alone, with one request in flight.
Init == InitWith({"file", "application"}, 1 .. 1, Requests)

Next ==
  \/ \E i \in Slots : NoServer(i)
  \/ \E i \in Slots : Receive(i)
  \/ \E i \in Slots : Finish(i)

Spec == Init /\ [][Next]_vars

\* The same with several clients' requests in flight at once.
ConcPayloads ==
  { [projectName |-> "Apollo", projectGoal |-> "Ship the lander"],
    [projectName |-> "Borealis", projectGoal |-> "Ship the lander",
     stakeholders |-> ""],
    [projectGoal |-> "Ship the lander"] }

ConcRequests ==
  { r \in CharterRequests(ConcPayloads) :
      r.isJson \/ "stakeholders" \in DOMAIN r.data }
  \cup { r \in RoutingRequests : r.method = "GET" /\ r.path = "/" }

InitConc == InitWith({"file", "application"}, 1 .. NumClients, ConcRequests)

SpecConc == InitConc /\ [][Next]_vars

\* The file, or the backend example's lines alone, with one request in
\* flight.
InitExample == InitWith({"file", "example"}, 1 .. 1, Requests)

NextExample ==
  \/ \E i \in Slots : NoServer(i)
  \/ \E i \in Slots : ServeExample(i)
  \/ \E i \in Slots : UpstreamReturns(i)
  \/ Tick

SpecExample == InitExample /\ [][NextExample]_vars

TypeOK ==
  /\ \A i \in Slots : pc[i] \in {"sent", "refused", "validating", "calling", "done"}
  /\ now \in 0 .. MaxClock

(***************************************************************************)
(* Properties.                                                             *)
(***************************************************************************)
Done(i) == pc[i] = "done"
IsCharterPost(r) == r.method = "POST" /\ r.path = CharterPath
\* the field is absent from the JSON object or the empty string
Falsy(data, field) == field \notin DOMAIN data \/ data[field] = ""
\* a JSON charter request with both required fields non-empty
Validated(r) ==
  /\ IsCharterPost(r) /\ r.isJson
  /\ ~Falsy(r.data, "projectName") /\ ~Falsy(r.data, "projectGoal")
\* the upstream call of request i ended without text to relay
UpstreamFailed(i) ==
  /\ ~upstream[i].none
  /\ (upstream[i].raises \/ Len(upstream[i].content) = 0)
ErrorBody(message, status) ==
  [status |-> status, mimetype |-> "application/json",
   body |-> [error |-> TRUE, message |-> message, statusCode |-> status]]

\* C1: a JSON charter request in which projectName or projectGoal is absent
\* or empty is answered 400 {error:true, message, statusCode:400}, the message
\* listing exactly the missing names, joined by ", ", projectName first.
C1_MissingFieldsRejected ==
  \A i \in Slots :
    LET r == req[i]
        expected ==
          (IF Falsy(r.data, "projectName") THEN <<"projectName">> ELSE <<>>)
          \o (IF Falsy(r.data, "projectGoal") THEN <<"projectGoal">> ELSE <<>>)
    IN (Done(i) /\ IsCharterPost(r) /\ r.isJson /\ Len(expected) > 0)
       => resp[i] = ErrorBody("Missing required fields: "
                              \o (IF Len(expected) = 2
                                  THEN "projectName, projectGoal"
                                  ELSE expected[1]), 400)

\* C2: a charter request whose content type is not JSON is answered 400 with
\* message "Content-Type must be application/json", whatever its body.
C2_NonJsonRejected ==
  \A i \in Slots :
    (Done(i) /\ IsCharterPost(req[i]) /\ ~req[i].isJson)
    => resp[i] = ErrorBody("Content-Type must be application/json", 400)

\* C3: when the upstream call of a validated request raises, the response is
\* 500 {error:true, message:"Error generating charter: <text>", statusCode:500}.
C3_UpstreamErrorShape ==
  \A i \in Slots :
    (Done(i) /\ Validated(req[i]) /\ upstream[i].raises)
    => resp[i] = ErrorBody("Error generating charter: " \o upstream[i].text, 500)

\* C4: a validated request whose upstream call does not fail completes with
\* 200 {success:true, projectName, charter, metadata:{generatedAt,
\* inputTokens, outputTokens, estimatedCost, model}}: projectName echoed,
\* charter the first text segment, token counts from the usage report.
C4_SuccessEnvelope ==
  \A i \in Slots :
    (Done(i) /\ Validated(req[i]) /\ ~UpstreamFailed(i))
    => /\ resp[i].status = 200
       /\ resp[i].mimetype = "application/json"
       /\ DOMAIN resp[i].body = {"success", "projectName", "charter", "metadata"}
       /\ resp[i].body.success = TRUE
       /\ resp[i].body.projectName = req[i].data["projectName"]
       /\ resp[i].body.charter = upstream[i].content[1]
       /\ DOMAIN resp[i].body.metadata =
            {"generatedAt", "inputTokens", "outputTokens", "estimatedCost", "model"}
       /\ resp[i].body.metadata.inputTokens = upstream[i].input_tokens
       /\ resp[i].body.metadata.outputTokens = upstream[i].output_tokens

DocumentedDefault ==
  [timeline |-> "Not specified", budget |-> "Not specified",
   stakeholders |-> "To be determined", constraints |-> "None specified",
   industry |-> "General", teamSize |-> "To be determined"]
DocumentedValue(data, f) ==
  IF Falsy(data, f) THEN DocumentedDefault[f] ELSE data[f]

\* C5: for a validated request the user instruction is built with each
\* optional field that is absent or empty replaced by its documented default
\* and each supplied field unchanged.
C5_OptionalDefaults ==
  \A i \in Slots :
    (Done(i) /\ Validated(req[i]))
    => /\ prompt[i].built
       /\ prompt[i].fields =
            << req[i].data["projectName"], req[i].data["projectGoal"],
               DocumentedValue(req[i].data, "timeline"),
               DocumentedValue(req[i].data, "budget"),
               DocumentedValue(req[i].data, "stakeholders"),
               DocumentedValue(req[i].data, "constraints"),
               DocumentedValue(req[i].data, "industry"),
               DocumentedValue(req[i].data, "teamSize") >>

Digit(d) ==
  CASE d = 0 -> "0" [] d = 1 -> "1" [] d = 2 -> "2" [] d = 3 -> "3"
    [] d = 4 -> "4" [] d = 5 -> "5" [] d = 6 -> "6" [] d = 7 -> "7"
    [] d = 8 -> "8" [] d = 9 -> "9"
RECURSIVE Decimal(_)
Decimal(n) == IF n < 10 THEN Digit(n) ELSE Decimal(n \div 10) \o Digit(n % 10)
\* the 4-decimal string of a cost given in micro-dollars (a multiple of 100)
Cost4(micro) ==
  LET frac == (micro % 1000000) \div 100 IN
    Decimal(micro \div 1000000) \o "."
      \o Digit(frac \div 1000) \o Digit((frac \div 100) % 10)
      \o Digit((frac \div 10) % 10) \o Digit(frac % 10)

\* C6: in a successful response metadata.estimatedCost is the 4-decimal
\* string of (3 x input_tokens + 15 x output_tokens) micro-dollars.
C6_EstimatedCost ==
  \A i \in Slots :
    (Done(i) /\ resp[i].status = 200 /\ "metadata" \in DOMAIN resp[i].body)
    => /\ "estimatedCost" \in DOMAIN resp[i].body.metadata
       /\ resp[i].body.metadata.estimatedCost =
            Cost4(3 * upstream[i].input_tokens + 15 * upstream[i].output_tokens)

\* C7: an unmatched route is answered 404 and a non-POST request to the
\* charter path 405, each with its {error:true, message, statusCode} body;
\* the charter handler does not run and no upstream call is made.
C7_RoutingErrors ==
  \A i \in Slots :
    /\ (Done(i) /\ req[i].path = "/unknown-path")
       => /\ resp[i] = ErrorBody(
                 "Endpoint not found. Use POST /webhook/praxis-charter", 404)
          /\ calls[i] = 0 /\ locals[i] = NoLocals
    /\ (Done(i) /\ req[i].path = CharterPath /\ req[i].method # "POST")
       => /\ resp[i] = ErrorBody("Method not allowed. Use POST request.", 405)
          /\ calls[i] = 0 /\ locals[i] = NoLocals

\* C8: GET / is answered 200 with the health payload, without an upstream
\* call, whatever else the service has handled.
C8_HealthAlways ==
  \A i \in Slots :
    (Done(i) /\ req[i].method = "GET" /\ req[i].path = "/")
    => /\ resp[i] =
            [status |-> 200, mimetype |-> "application/json",
             body |-> [status |-> "online",
                       service |-> "Praxis Advisor - Project Charter Generator",
                       version |-> "1.0",
                       endpoint |-> "/webhook/praxis-charter"]]
       /\ calls[i] = 0

\* C9: a request invokes the upstream API at most once: exactly once when it
\* passes the content-type and required-field checks, never when it does not
\* and is rejected with 400; every request ends in exactly one response.
C9_OneCallOneResponse ==
  \A i \in Slots :
    /\ calls[i] <= 1
    /\ responses[i] <= 1
    /\ Done(i) => /\ responses[i] = 1
                  /\ Validated(req[i]) => calls[i] = 1
                  /\ ~Validated(req[i]) => calls[i] = 0
                  /\ resp[i].status = 400 => calls[i] = 0

\* two finished requests with the same payload and the same upstream outcome
\* have the same response, whatever other requests were handled before,
\* after or in between
SameInputsSameResponse ==
  \A i, j \in Slots :
    (Done(i) /\ Done(j) /\ req[i] = req[j] /\ upstream[i] = upstream[j])
    => resp[i] = resp[j]

\* a step leaves untouched everything that belongs to the requests it is not
\* a step of, and the module globals (the API client, the Flask object)
OwnStateOnly ==
  /\ globals' = globals
  /\ \A j \in Slots :
       pc'[j] = pc[j]
       => /\ locals'[j] = locals[j] /\ prompt'[j] = prompt[j]
          /\ call'[j] = call[j] /\ calls'[j] = calls[j]
          /\ upstream'[j] = upstream[j]
          /\ resp'[j] = resp[j] /\ responses'[j] = responses[j]

\* C10: requests handled concurrently are independent: under any
\* interleaving of the handlers' steps the response to a request is
\* determined by its own payload and its own upstream outcome, no step of one
\* request writes state of another, and the API client is never modified.
C10_Independent == []SameInputsSameResponse /\ [][OwnStateOnly]_vars

\* Two requests with the same valid payload and a third, different request
\* with a missing field have all been answered.
C10_Witness ==
  \E i, j, k \in Slots :
    /\ i # j /\ i # k /\ j # k
    /\ Done(i) /\ Done(j) /\ Done(k)
    /\ req[i] = req[j] /\ Validated(req[i])
    /\ IsCharterPost(req[k]) /\ req[k].isJson /\ ~Validated(req[k])
    /\ resp[i].status = 500 /\ resp[k].status = 400

\* A JSON request with projectName supplied and projectGoal the empty string
\* was answered 400 naming projectGoal only.
C1_Witness ==
  \E i \in Slots :
    /\ Done(i) /\ IsCharterPost(req[i]) /\ req[i].isJson
    /\ ~Falsy(req[i].data, "projectName")
    /\ "projectGoal" \in DOMAIN req[i].data /\ req[i].data["projectGoal"] = ""
    /\ resp[i].status = 400
    /\ resp[i].body.message = "Missing required fields: projectGoal"

\* A request that is not JSON, with a body that holds both required fields,
\* was answered 400.
C2_Witness ==
  \E i \in Slots :
    /\ Done(i) /\ IsCharterPost(req[i]) /\ ~req[i].isJson
    /\ ~Falsy(req[i].data, "projectName") /\ ~Falsy(req[i].data, "projectGoal")
    /\ resp[i].status = 400

\* GET / was answered 200 while one charter request had been answered 400 and
\* another 500.
C8_Witness ==
  \E i, j, k \in Slots :
    /\ Done(i) /\ req[i].method = "GET" /\ req[i].path = "/"
    /\ resp[i].status = 200
    /\ Done(j) /\ IsCharterPost(req[j]) /\ resp[j].status = 400
    /\ Done(k) /\ IsCharterPost(req[k]) /\ resp[k].status = 500
====
